---------------------------- MODULE Spec2Model ----------------------------
(***************************************************************************)
(* A model of the yt_geotiff frontend: the single-file GeoTIFF dataset,    *)
(* the Landsat product-directory dataset, their field discovery and the    *)
(* IO handler's raw and chunked readers.                                    *)
(*                                                                          *)
(* Python strings that the code slices, splits or converts are sequences   *)
(* of one-character strings; a dict is a sequence of <<key, value>> pairs   *)
(* in insertion order.  A handler is one action; it runs to its return or  *)
(* to the exception it raises, which is recorded in call.err.               *)
(*                                                                          *)
(* io.py uses defaultdict and os without importing them, and calls tell    *)
(* and seek on what rasterio.open returns.  The model reads these names as *)
(* collections.defaultdict, the os module and a binary file object, i.e.    *)
(* it follows the algorithm the function body states.                       *)
(***************************************************************************)
EXTENDS Integers, Sequences, FiniteSets, TLC

VARIABLES
    fs,                 \* the file system and the inputs of the run (never written)
    phase,              \* where the dataset's life cycle stands
    parameters,         \* Dataset.parameters
    domain_dimensions,  \* Dataset.domain_dimensions, <<>> while unset
    domain_left_edge,   \* Dataset.domain_left_edge, <<>> while unset
    domain_right_edge,  \* Dataset.domain_right_edge, <<>> while unset
    field_list,         \* index.field_list
    field_units,        \* Dataset.field_units
    handles,            \* the file handles that are open
    call,               \* the last call: its name, argument, exception, result
    reads               \* the reads of the last chunked read, in order

vars == <<fs, phase, parameters, domain_dimensions, domain_left_edge,
          domain_right_edge, field_list, field_units, handles, call, reads>>

dsvars == <<parameters, domain_dimensions, domain_left_edge,
            domain_right_edge, field_list, field_units>>

NoCall == [op |-> "none", arg |-> <<>>, err |-> "none", ret |-> <<>>]

Min(a, b) == IF a < b THEN a ELSE b

(***************************************************************************)
(* Python strings                                                           *)
(***************************************************************************)

\* s[a:b] with 0 <= a <= b: the slice is cut at the end of the string.
Slice(s, a, b) == SubSeq(s, a + 1, Min(b, Len(s)))

\* s.split(c) for a one-character separator c.
RECURSIVE Split(_, _)
Split(s, c) ==
    IF \E i \in DOMAIN s : s[i] = c
    THEN LET i == CHOOSE k \in DOMAIN s :
                      s[k] = c /\ \A j \in 1..(k - 1) : s[j] # c
         IN  <<SubSeq(s, 1, i - 1)>> \o Split(SubSeq(s, i + 1, Len(s)), c)
    ELSE <<s>>

Last(q) == q[Len(q)]

Digits == <<"0", "1", "2", "3", "4", "5", "6", "7", "8", "9">>

IsDigit(c) == \E i \in DOMAIN Digits : Digits[i] = c

DigitVal(c) == (CHOOSE i \in DOMAIN Digits : Digits[i] = c) - 1

\* str(n) for n >= 0.
RECURSIVE PyStr(_)
PyStr(n) ==
    IF n < 10 THEN <<Digits[n + 1]>>
    ELSE PyStr(n \div 10) \o <<Digits[(n % 10) + 1]>>

\* int(s) accepts a non-empty run of decimal digits (sign and blanks aside).
IntOk(s) == Len(s) > 0 /\ \A i \in DOMAIN s : IsDigit(s[i])

RECURSIVE PyInt(_)
PyInt(s) ==
    IF Len(s) = 0 THEN 0
    ELSE 10 * PyInt(SubSeq(s, 1, Len(s) - 1)) + DigitVal(s[Len(s)])

(***************************************************************************)
(* Python dicts, in insertion order                                         *)
(***************************************************************************)

\* A key is a str or a (band, key) tuple; the two never compare equal.
StrKey(k) == [tup |-> FALSE, band |-> <<>>, name |-> k]

TupKey(b, k) == [tup |-> TRUE, band |-> b, name |-> k]

Has(d, k) == \E i \in DOMAIN d : d[i][1] = k

Get(d, k) == d[CHOOSE i \in DOMAIN d : d[i][1] = k][2]

Put(d, k, v) ==
    IF Has(d, k)
    THEN [i \in DOMAIN d |-> IF d[i][1] = k THEN <<k, v>> ELSE d[i]]
    ELSE Append(d, <<k, v>>)

RECURSIVE Update(_, _)
Update(d, pairs) ==
    IF pairs = <<>> THEN d
    ELSE Update(Put(d, pairs[1][1], pairs[1][2]), Tail(pairs))

DictKeys(d) == {d[i][1] : i \in DOMAIN d}

(***************************************************************************)
(* LandSatGeoTiffDataSet._parse_landsat_filename_data                       *)
(***************************************************************************)

sensor ==
    ("C" :> "OLI&TIRS combined") @@ ("O" :> "OLI-only") @@ ("E" :> "ETM+")
        @@ ("T" :> "TM") @@ ("M" :> "MSS")

satellite ==
    (<<"0", "7">> :> "Landsat 7") @@ (<<"0", "8">> :> "Landsat 8")

category ==
    (<<"R", "T">> :> "Real-Time") @@ (<<"T", "1">> :> "Tier 1")
        @@ (<<"T", "2">> :> "Tier 2")

\* A lookup that falls back on a default, as table.get(code, ...) would.
SubscriptOrDefault(table, code) ==
    IF code \in DOMAIN table
    THEN [err |-> "none", val |-> table[code]]
    ELSE [err |-> "none", val |-> "unknown"]

\* table[code]: a dict subscription raises KeyError on a missing key.
Subscript(table, code) ==
    IF code \in DOMAIN table
    THEN [err |-> "none", val |-> table[code]]
    ELSE [err |-> "KeyError", val |-> <<>>]

\* filename[i]: indexing one character raises IndexError past the end.
CharAt(filename, i) ==
    IF i < Len(filename)
    THEN [err |-> "none", val |-> filename[i + 1]]
    ELSE [err |-> "IndexError", val |-> <<>>]

Field(key, r) == [key |-> key, err |-> r.err, val |-> r.val]

Plain(v) == [err |-> "none", val |-> v]

\* The statements of the function in order, each one run on the table the
\* one before it left; the first that raises ends the call.
FilenameFields(filename) ==
    LET ch  == CharAt(filename, 1)
        cat == Subscript(category, Slice(filename, 38, 40))
    IN
    << Field("sensor",
             IF ch.err # "none" THEN ch ELSE Subscript(sensor, ch.val)),
       Field("satellite", Subscript(satellite, Slice(filename, 2, 4))),
       Field("level", Plain(Slice(filename, 5, 9))),
       Field("wrs", Plain([path |-> Slice(filename, 10, 13),
                           row |-> Slice(filename, 13, 16)])),
       Field("acquisition_time",
             Plain([year |-> Slice(filename, 17, 21),
                    month |-> Slice(filename, 21, 23),
                    day |-> Slice(filename, 23, 25)])),
       Field("processing_time",
             Plain([year |-> Slice(filename, 26, 30),
                    month |-> Slice(filename, 30, 32),
                    day |-> Slice(filename, 32, 34)])),
       Field("collection",
             [err |-> cat.err,
              val |-> [number |-> Slice(filename, 35, 37),
                       category |-> cat.val]]) >>

RECURSIVE RunFilenameFields(_, _)
RunFilenameFields(p, todo) ==
    IF todo = <<>> THEN [p |-> p, err |-> "none"]
    ELSE IF todo[1].err # "none" THEN [p |-> p, err |-> todo[1].err]
    ELSE RunFilenameFields(Put(p, StrKey(todo[1].key), todo[1].val), Tail(todo))

parse_landsat_filename_data(p, filename) ==
    RunFilenameFields(p, FilenameFields(filename))

(***************************************************************************)
(* Product identifiers LXSS_LLLL_PPPRRR_YYYYMMDD_yyyymmdd_CC_TX             *)
(***************************************************************************)

SensorLetters == {"C", "O", "E", "T", "M", "X"}

SatelliteCodes == {<<"0", "7">>, <<"0", "8">>, <<"0", "5">>}

CategoryCodes == {<<"R", "T">>, <<"T", "1">>, <<"T", "2">>, <<"T", "3">>}

\* "_L1TP_171060_20210227_20210304_02_"
IdMiddle ==
    <<"_", "L", "1", "T", "P", "_", "1", "7", "1", "0", "6", "0", "_",
      "2", "0", "2", "1", "0", "2", "2", "7", "_",
      "2", "0", "2", "1", "0", "3", "0", "4", "_", "0", "2", "_">>

ProductId(x, ss, tx) == <<"L", x>> \o ss \o IdMiddle \o tx

IdLen == 40

\* Identifiers cut short: a malformed name reaches the decoder unchecked.
CutLengths == {0, 1, 2, 3, 4, 38, 39, IdLen}

Filenames ==
    {SubSeq(ProductId(x, ss, tx), 1, n) :
        x \in SensorLetters, ss \in SatelliteCodes, tx \in CategoryCodes,
        n \in CutLengths}

InitFilename ==
    /\ fs \in {[kind |-> "name", filename |-> f] : f \in Filenames}
    /\ phase = "new"
    /\ parameters = <<>>
    /\ domain_dimensions = <<>>
    /\ domain_left_edge = <<>>
    /\ domain_right_edge = <<>>
    /\ field_list = <<>>
    /\ field_units = <<>>
    /\ handles = {}
    /\ call = NoCall
    /\ reads = <<>>

ParseLandsatFilenameData ==
    /\ fs.kind = "name"
    /\ phase = "new"
    /\ LET r == parse_landsat_filename_data(parameters, fs.filename)
       IN  /\ parameters' = r.p
           /\ call' = [op |-> "_parse_landsat_filename_data",
                       arg |-> fs.filename, err |-> r.err, ret |-> <<>>]
           /\ phase' = IF r.err = "none" THEN "decoded" ELSE "failed"
    /\ UNCHANGED <<fs, domain_dimensions, domain_left_edge, domain_right_edge,
                   field_list, field_units, handles, reads>>

NextFilename == ParseLandsatFilenameData

SpecFilename == InitFilename /\ [][NextFilename]_vars

(***************************************************************************)
(* The raster backend and the file system                                   *)
(***************************************************************************)

Acquire(h, path) == h \cup {path}

Release(h, path) == h \ {path}

\* "with rasterio.open(path) as f: body": the handle is released when the
\* block is left, by its end, a return or an exception.
WithOpen(h, path) == Release(Acquire(h, path), path)

EndsWith(s, suffix) ==
    /\ Len(s) >= Len(suffix)
    /\ SubSeq(s, Len(s) - Len(suffix) + 1, Len(s)) = suffix

\* The affine transform [a, b, c, d, e, f] applied to the pixel extents:
\* x = a*col + b*row + c, y = d*col + e*row + f at (col, row) = (width, height).
left_aligned_coord_cal(height, width, transform) ==
    << transform[1] * width + transform[2] * height + transform[3],
       transform[4] * width + transform[5] * height + transform[6] >>

\* rasterio's f.meta, in the order rasterio builds it.
Meta(driver, count, height, width, transform) ==
    << <<"driver", driver>>, <<"dtype", "uint16">>, <<"nodata", "None">>,
       <<"width", width>>, <<"height", height>>, <<"count", count>>,
       <<"crs", "EPSG:32636">>, <<"transform", transform>> >>

(***************************************************************************)
(* GeoTiffDataset: one raster file                                          *)
(***************************************************************************)

MaxBands == 3

MaxDim == 2

MaxCoef == 1

Extensions ==
    { <<".", "t", "i", "f">>, <<".", "t", "i", "f", "f">>, <<".", "T", "I", "F">> }

Drivers == {"GTiff", "PNG"}

Transforms == { <<2, 0, 10, 0, 2, 20>>, <<2, 0, 10, 0, -2, 20>> }

RasterFile(ext, driver, count, height, width, transform) ==
    [kind |-> "geotiff", parameter_filename |-> <<"r">> \o ext,
     driver |-> driver, count |-> count, height |-> height, width |-> width,
     transform |-> transform]

FileMeta(f) == Meta(f.driver, f.count, f.height, f.width, f.transform)

\* GeoTiffDataset._is_valid
GeoTiffIsValid(f) ==
    IF ~(EndsWith(f.parameter_filename, <<".", "t", "i", "f">>)
         \/ EndsWith(f.parameter_filename, <<".", "t", "i", "f", "f">>))
    THEN [ret |-> FALSE, opened |-> FALSE]
    ELSE [ret |-> f.driver = "GTiff", opened |-> TRUE]

RECURSIVE CopyMeta(_, _)
CopyMeta(p, meta) ==
    IF meta = <<>> THEN p
    ELSE CopyMeta(Put(p, StrKey(meta[1][1]), meta[1][2]), Tail(meta))

\* domain_left_edge as the parse sets it: np.zeros(dimensionality).
LeftEdge == <<0, 0, 0>>

RightEdge(xy) == <<xy[1], xy[2], 1>>

\* GeoTiffDataset._parse_parameter_file
GeoTiffParse(p, f) ==
    LET q  == CopyMeta(p, FileMeta(f))
        dd == <<Get(q, StrKey("height")), Get(q, StrKey("width")), 1>>
        xy == left_aligned_coord_cal(dd[1], dd[2], Get(q, StrKey("transform")))
    IN  [p |-> q, dd |-> dd, le |-> LeftEdge, re |-> RightEdge(xy),
         err |-> "none"]

\* "self.ds.field_units = self.ds.field_units or {}"
OrEmpty(d) == IF d = <<>> THEN <<>> ELSE d

\* A discovery that appends to the list it finds.
KeepFieldList(fl) == fl

ResetFieldList(fl) == <<>>

RECURSIVE AppendBands(_, _, _)
AppendBands(st, i, count) ==
    IF i > count THEN st
    ELSE LET field_name == <<"bands", PyStr(i)>>
         IN  AppendBands([fl |-> Append(st.fl, field_name),
                          fu |-> Put(st.fu, field_name, "")], i + 1, count)

\* GeoTiffHierarchy._detect_output_fields
GeoTiffDetectOutputFields(fl, fu, f) ==
    AppendBands([fl |-> ResetFieldList(fl), fu |-> OrEmpty(fu)], 1, f.count)

\* What f.read(n) returns: band n of the file.
BandData(path, n) == [file |-> path, band |-> n]

\* IOHandlerYTGTiff._read_raw_field
read_raw_field(f, field) ==
    LET band == field[2]
    IN  IF f.kind # "geotiff"
        THEN [err |-> "RasterioIOError", ret |-> <<>>, opened |-> FALSE]
        ELSE IF ~IntOk(band)
        THEN [err |-> "ValueError", ret |-> <<>>, opened |-> TRUE]
        ELSE IF PyInt(band) \notin 1..f.count
        THEN [err |-> "IndexError", ret |-> <<>>, opened |-> TRUE]
        ELSE [err |-> "none", ret |-> BandData(f.parameter_filename, PyInt(band)),
              opened |-> TRUE]

(***************************************************************************)
(* LandSatGeoTiffDataSet: a product directory                               *)
(***************************************************************************)

MaxMetaFiles == 2

MaxFiles == 3

Sep == "/"

BandCodes == { <<"1">>, <<"2">>, <<"Q", "A">> }

\* The first *.TIF of the directory: none, or what opening it gives.
FirstTifs == {"none", "unreadable", "GTiff", "PNG"}

ProductIds ==
    { ProductId("C", <<"0", "8">>, <<"T", "1">>),
      ProductId("X", <<"0", "8">>, <<"T", "1">>) }

\* <id>_B<code>.TIF, the value of a FILE_NAME_BAND_* line of the MTL file.
BandFile(id, code) == id \o <<"_", "B">> \o code \o <<".", "T", "I", "F">>

FileKeyName(code) ==
    CASE code = <<"1">> -> "FILE_NAME_BAND_1"
      [] code = <<"2">> -> "FILE_NAME_BAND_2"
      [] OTHER -> "FILE_NAME_BAND_QUALITY"

FileKeyNames == {FileKeyName(c) : c \in BandCodes}

\* "'FILE_NAME_BAND_' in s": a substring test on a str key, an element test
\* on a tuple key, whose elements are a band code and a metadata key.
ContainsFileNameBand(k) == ~k.tup /\ k.name \in FileKeyNames

\* Rasters of one product differ in shape (the panchromatic band).
BandShape(code) ==
    CASE code = <<"1">> -> [height |-> 2, width |-> 3]
      [] code = <<"2">> -> [height |-> 4, width |-> 5]
      [] OTHER -> [height |-> 6, width |-> 7]

BandTransform == <<30, 0, 100, 0, 30, 200>>

\* The band code of a band file path.
BandOfPath(file) == Split(Split(Last(Split(file, Sep)), ".")[1], "B")

BandMeta(file) ==
    LET code == BandOfPath(file)[2]
    IN  Meta("GTiff", 1, BandShape(code).height, BandShape(code).width,
             BandTransform)

\* The sequences of distinct band codes, at most n long.
BandOrders(n) ==
    { q \in UNION { [1..k -> BandCodes] : k \in 0..n } :
        \A i, j \in DOMAIN q : i # j => q[i] # q[j] }

ProductDir(isdir, nANG, nMTL, tif, slash, id, bands, angDtype) ==
    [kind |-> "landsat", isdir |-> isdir, nANG |-> nANG, nMTL |-> nMTL,
     tif |-> tif, id |-> id, bands |-> bands, angDtype |-> angDtype,
     parameter_filename |->
        <<Sep, "d", Sep>> \o id \o (IF slash THEN <<Sep>> ELSE <<>>)]

\* LandSatGeoTiffDataSet._is_valid
LandSatIsValid(d) ==
    IF ~d.isdir THEN [ret |-> FALSE, opened |-> FALSE]
    ELSE IF d.nANG # 1 /\ d.nMTL # 1 THEN [ret |-> FALSE, opened |-> FALSE]
    ELSE IF d.tif \in {"none", "unreadable"}
    THEN [ret |-> FALSE, opened |-> FALSE]
    ELSE [ret |-> d.tif = "GTiff", opened |-> TRUE]

\* The paths the parse derives from parameter_filename.
DataDir(pf) == IF Last(pf) = Sep THEN pf ELSE pf \o <<Sep>>

DirName(pf) ==
    IF Last(pf) = Sep THEN Last(Split(SubSeq(pf, 1, Len(pf) - 1), Sep))
    ELSE Last(Split(pf, Sep))

MtlFile(pf) == DataDir(pf) \o DirName(pf) \o <<"_", "M", "T", "L", ".", "t", "x", "t">>

AngFile(pf) == DataDir(pf) \o DirName(pf) \o <<"_", "A", "N", "G", ".", "t", "x", "t">>

\* The product's own metadata files are <dir>/<id>_ANG.txt and _MTL.txt.
AngLines(d) ==
    << <<StrKey("SATELLITE"), "LANDSAT_8">> >>
        \o (IF d.angDtype THEN << <<StrKey("dtype"), "angle">> >> ELSE <<>>)

MtlLines(d) ==
    << <<StrKey("SPACECRAFT_ID"), "LANDSAT_8">> >>
        \o [i \in DOMAIN d.bands |->
               <<StrKey(FileKeyName(d.bands[i])), BandFile(d.id, d.bands[i])>>]

\* utilities.parse_awslandsat_metafile: the KEY = VALUE lines of a text file
\* as a flat table; fails when the file cannot be read.
parse_awslandsat_metafile(d, path) ==
    IF path = <<Sep, "d", Sep>> \o d.id \o <<Sep>> \o d.id
                 \o <<"_", "A", "N", "G", ".", "t", "x", "t">> /\ d.nANG >= 1
    THEN [err |-> "none", lines |-> AngLines(d)]
    ELSE IF path = <<Sep, "d", Sep>> \o d.id \o <<Sep>> \o d.id
                 \o <<"_", "M", "T", "L", ".", "t", "x", "t">> /\ d.nMTL >= 1
    THEN [err |-> "none", lines |-> MtlLines(d)]
    ELSE [err |-> "ParseError", lines |-> <<>>]

\* The keys of the table that hold band file names, in insertion order.
FileKeys(p) == SelectSeq([i \in DOMAIN p |-> p[i][1]], ContainsFileNameBand)

Files(p, data_dir) ==
    LET filekeys == FileKeys(p)
    IN  [i \in DOMAIN filekeys |-> data_dir \o Get(p, filekeys[i])]

\* A merge that stores every band metadata key, present or not.
RECURSIVE MergeBandMetaNoSkip(_, _, _)
MergeBandMetaNoSkip(p, band, meta) ==
    IF meta = <<>> THEN p
    ELSE MergeBandMetaNoSkip(Put(p, TupKey(band, meta[1][1]), meta[1][2]),
                             band, Tail(meta))

\* The merge of one band file's metadata into the table.
RECURSIVE MergeBandMeta(_, _, _)
MergeBandMeta(p, band, meta) ==
    IF meta = <<>> THEN p
    ELSE IF Has(p, StrKey(meta[1][1])) THEN MergeBandMeta(p, band, Tail(meta))
    ELSE MergeBandMeta(Put(p, TupKey(band, meta[1][1]), meta[1][2]),
                       band, Tail(meta))

\* The band whose metadata gives the domain geometry.
IsReferenceBand(band) == band = <<"1">>

\* The loop over the band files; st carries the table and the geometry.
RECURSIVE ParseBands(_, _)
ParseBands(st, files) ==
    IF files = <<>> THEN st
    ELSE LET parts == BandOfPath(files[1])
         IN  IF Len(parts) < 2 THEN [st EXCEPT !.err = "IndexError"]
             ELSE LET band == parts[2]
                      q    == MergeBandMeta(st.p, band, BandMeta(files[1]))
                  IN  IF ~IsReferenceBand(band)
                      THEN ParseBands([st EXCEPT !.p = q], Tail(files))
                      ELSE IF ~(Has(q, TupKey(band, "height"))
                                /\ Has(q, TupKey(band, "width"))
                                /\ Has(q, TupKey(band, "transform")))
                      THEN [st EXCEPT !.p = q, !.err = "KeyError"]
                      ELSE LET dd == <<Get(q, TupKey(band, "height")),
                                       Get(q, TupKey(band, "width")), 1>>
                               xy == left_aligned_coord_cal(
                                         dd[1], dd[2],
                                         Get(q, TupKey(band, "transform")))
                           IN  ParseBands([p |-> q, dd |-> dd, le |-> LeftEdge,
                                           re |-> RightEdge(xy), err |-> "none"],
                                          Tail(files))

\* The table before the loop over the band files: the two metadata files,
\* 'count', and the fields the directory name gives.
ParseHead(p, d) ==
    LET pf  == d.parameter_filename
        ang == parse_awslandsat_metafile(d, AngFile(pf))
        mtl == parse_awslandsat_metafile(d, MtlFile(pf))
    IN  IF ang.err # "none" THEN [p |-> p, err |-> ang.err]
        ELSE IF mtl.err # "none"
        THEN [p |-> Update(p, ang.lines), err |-> mtl.err]
        ELSE LET q == Update(Update(p, ang.lines), mtl.lines)
                 r == Put(q, StrKey("count"), Len(FileKeys(q)))
             IN  parse_landsat_filename_data(r, Last(Split(pf, Sep)))

\* LandSatGeoTiffDataSet._parse_parameter_file
LandSatParse(p, d) ==
    LET head == ParseHead(p, d)
        st0  == [p |-> head.p, dd |-> <<>>, le |-> <<>>, re |-> <<>>,
                 err |-> head.err]
    IN  IF head.err # "none" THEN st0
        ELSE ParseBands(st0, Files(head.p, DataDir(d.parameter_filename)))

RECURSIVE AppendBandCodes(_, _)
AppendBandCodes(st, files) ==
    IF files = <<>> THEN st
    ELSE LET parts == BandOfPath(files[1])
         IN  IF Len(parts) < 2 THEN [st EXCEPT !.err = "IndexError"]
             ELSE LET field_name == <<"bands", parts[2]>>
                  IN  AppendBandCodes([fl |-> Append(st.fl, field_name),
                                       fu |-> Put(st.fu, field_name, ""),
                                       err |-> "none"], Tail(files))

\* LandSatGeoTiffHierarchy._detect_output_fields
LandSatDetectOutputFields(fl, fu, p, d) ==
    AppendBandCodes([fl |-> <<>>, fu |-> OrEmpty(fu), err |-> "none"],
                    Files(p, DataDir(d.parameter_filename)))

(***************************************************************************)
(* The calls                                                                *)
(***************************************************************************)

Called(op, arg, err, ret) == [op |-> op, arg |-> arg, err |-> err, ret |-> ret]

Fresh ==
    /\ phase = "new"
    /\ parameters = <<>>
    /\ domain_dimensions = <<>>
    /\ domain_left_edge = <<>>
    /\ domain_right_edge = <<>>
    /\ field_list = <<>>
    /\ field_units = <<>>
    /\ handles = {}
    /\ call = NoCall
    /\ reads = <<>>

IsValidGeoTiff ==
    /\ fs.kind = "geotiff"
    /\ phase = "new"
    /\ LET r == GeoTiffIsValid(fs)
       IN  /\ handles' = IF r.opened
                         THEN WithOpen(handles, fs.parameter_filename)
                         ELSE handles
           /\ call' = Called("_is_valid", fs.parameter_filename, "none", r.ret)
           /\ phase' = IF r.ret THEN "valid" ELSE "invalid"
    /\ UNCHANGED <<fs, dsvars, reads>>

ParseGeoTiff ==
    /\ fs.kind = "geotiff"
    /\ phase = "valid"
    /\ LET r == GeoTiffParse(parameters, fs)
       IN  /\ parameters' = r.p
           /\ domain_dimensions' = r.dd
           /\ domain_left_edge' = r.le
           /\ domain_right_edge' = r.re
           /\ call' = Called("_parse_parameter_file", fs.parameter_filename,
                             r.err, <<>>)
           /\ phase' = "parsed"
    /\ handles' = WithOpen(handles, fs.parameter_filename)
    /\ UNCHANGED <<fs, field_list, field_units, reads>>

DetectGeoTiff ==
    /\ fs.kind = "geotiff"
    /\ phase \in {"parsed", "indexed", "reindexed"}
    /\ LET r == GeoTiffDetectOutputFields(field_list, field_units, fs)
       IN  /\ field_list' = r.fl
           /\ field_units' = r.fu
    /\ handles' = WithOpen(handles, fs.parameter_filename)
    /\ call' = Called("_detect_output_fields", <<>>, "none", <<>>)
    /\ phase' = IF phase = "parsed" THEN "indexed" ELSE "reindexed"
    /\ UNCHANGED <<fs, parameters, domain_dimensions, domain_left_edge,
                   domain_right_edge, reads>>

IsValidLandSat ==
    /\ fs.kind = "landsat"
    /\ phase = "new"
    /\ LET r == LandSatIsValid(fs)
           first == DataDir(fs.parameter_filename) \o <<"a", ".", "T", "I", "F">>
       IN  /\ handles' = IF r.opened THEN WithOpen(handles, first) ELSE handles
           /\ call' = Called("_is_valid", fs.parameter_filename, "none", r.ret)
           /\ phase' = IF r.ret THEN "valid" ELSE "invalid"
    /\ UNCHANGED <<fs, dsvars, reads>>

RECURSIVE WithOpenEach(_, _)
WithOpenEach(h, files) ==
    IF files = <<>> THEN h
    ELSE WithOpenEach(WithOpen(h, files[1]), Tail(files))

ParseLandSat ==
    /\ fs.kind = "landsat"
    /\ phase = "valid"
    /\ LET r == LandSatParse(parameters, fs)
       IN  /\ parameters' = r.p
           /\ domain_dimensions' = r.dd
           /\ domain_left_edge' = r.le
           /\ domain_right_edge' = r.re
           /\ call' = Called("_parse_parameter_file", fs.parameter_filename,
                             r.err, <<>>)
           /\ phase' = IF r.err = "none" THEN "parsed" ELSE "failed"
           /\ handles' = WithOpenEach(handles,
                             Files(r.p, DataDir(fs.parameter_filename)))
    /\ UNCHANGED <<fs, field_list, field_units, reads>>

DetectLandSat ==
    /\ fs.kind = "landsat"
    /\ phase \in {"parsed", "indexed", "reindexed"}
    /\ LET r == LandSatDetectOutputFields(field_list, field_units,
                                          parameters, fs)
       IN  /\ field_list' = r.fl
           /\ field_units' = r.fu
           /\ call' = Called("_detect_output_fields", <<>>, r.err, <<>>)
           /\ phase' = IF r.err # "none" THEN "failed"
                       ELSE IF phase = "parsed" THEN "indexed" ELSE "reindexed"
    /\ UNCHANGED <<fs, parameters, domain_dimensions, domain_left_edge,
                   domain_right_edge, handles, reads>>

\* Fields a caller may ask for besides the discovered ones.
OtherFields == { <<"bands", <<"9">>>>, <<"bands", <<"Q", "A">>>> }

ReadRawField ==
    /\ phase \in {"indexed", "reindexed"}
    /\ \E field \in {field_list[i] : i \in DOMAIN field_list} \cup OtherFields :
          LET r == read_raw_field(fs, field)
          IN  /\ call' = Called("_read_raw_field", field, r.err, r.ret)
              /\ handles' = IF r.opened
                            THEN WithOpen(handles, fs.parameter_filename)
                            ELSE handles
    /\ UNCHANGED <<fs, phase, dsvars, reads>>

InitGeoTiff ==
    /\ fs \in { RasterFile(ext, driver, count, height, width, transform) :
                  ext \in Extensions, driver \in Drivers, count \in 0..MaxBands,
                  height \in 1..MaxDim, width \in 1..MaxDim,
                  transform \in Transforms }
    /\ Fresh

NextGeoTiff == IsValidGeoTiff \/ ParseGeoTiff \/ DetectGeoTiff \/ ReadRawField

SpecGeoTiff == InitGeoTiff /\ [][NextGeoTiff]_vars

Coefs == (0 - MaxCoef)..MaxCoef

\* A georeferenced raster has an invertible transform.
Invertible(t) == t[1] * t[5] - t[2] * t[4] # 0

InitGeometry ==
    /\ fs \in { RasterFile(<<".", "t", "i", "f">>, "GTiff", 1, height, width,
                           <<a, b, c, d, e, f>>) :
                  height \in 1..MaxDim, width \in 1..MaxDim,
                  a \in Coefs, b \in Coefs, c \in Coefs,
                  d \in Coefs, e \in Coefs, f \in Coefs }
    /\ Invertible(fs.transform)
    /\ Fresh

SpecGeometry == InitGeometry /\ [][NextGeoTiff]_vars

InitLandSat ==
    /\ fs \in { ProductDir(isdir, nANG, nMTL, tif, slash, id, bands, angDtype) :
                  isdir \in BOOLEAN, nANG \in 0..MaxMetaFiles,
                  nMTL \in 0..MaxMetaFiles, tif \in FirstTifs,
                  slash \in BOOLEAN, id \in ProductIds,
                  bands \in BandOrders(MaxFiles), angDtype \in BOOLEAN }
    /\ Fresh

NextLandSat == IsValidLandSat \/ ParseLandSat \/ DetectLandSat \/ ReadRawField

SpecLandSat == InitLandSat /\ [][NextLandSat]_vars

(***************************************************************************)
(* IOHandlerYTGTiff._read_chunk_data                                        *)
(***************************************************************************)

MaxGrids == 2

FieldOrder == <<"A", "B", "C">>

ItemSizes == {1, 2}

FileNames == {"None", "a", "b"}

Offsets == {0, 3}

Dimensions == { <<2, 1>>, <<0, 2>> }

FileLengths == {5, 16}

Grids(n) == [id : {n}, filename : FileNames, offset : Offsets,
             ActiveDimensions : Dimensions]

\* chunk.objs: grids with ids 1, 2, ...
Chunks ==
    UNION { { q \in [1..k -> UNION {Grids(i) : i \in 1..k}] :
                \A i \in 1..k : q[i].id = i } : k \in 0..MaxGrids }

Prod(dims) == dims[1] * dims[2]

\* grid._get_offset(f): the grid's byte offset in its file.
GetOffset(grid) == grid.offset

\* grids_by_file: the file names in the order first seen, each with its
\* grids in chunk order; grids without a file are left out.
RECURSIVE GridsByFile(_, _)
GridsByFile(d, objs) ==
    IF objs = <<>> THEN d
    ELSE LET g == objs[1]
         IN  IF g.filename = "None" THEN GridsByFile(d, Tail(objs))
             ELSE GridsByFile(
                      Put(d, g.filename,
                          IF Has(d, g.filename)
                          THEN Append(Get(d, g.filename), g) ELSE <<g>>),
                      Tail(objs))

\* list.sort(key = lambda a: a._offset): stable, ascending.
RECURSIVE InsertByOffset(_, _)
InsertByOffset(sorted, g) ==
    IF sorted = <<>> THEN <<g>>
    ELSE IF sorted[1].offset <= g.offset
    THEN <<sorted[1]>> \o InsertByOffset(Tail(sorted), g)
    ELSE <<g>> \o sorted

RECURSIVE SortByOffset(_)
SortByOffset(grids) ==
    IF grids = <<>> THEN <<>>
    ELSE InsertByOffset(SortByOffset(SubSeq(grids, 1, Len(grids) - 1)),
                        grids[Len(grids)])

\* np.fromfile(f, count = count) at byte start of a file of length len:
\* the number of whole items it returns.
FromFile(len, start, bpr, count) ==
    IF start >= len THEN 0 ELSE Min(count, (len - start) \div bpr)

\* A skip that advances by the element count, not the byte count.
SkipItems(local_offset, count, bpr) == local_offset + count

\* "local_offset += size" for a field that is not read.
Skip(local_offset, count, bpr) == local_offset + count * bpr

\* The loop over index.field_order for one grid; st carries the file
\* position, the data read so far and the log of reads.
RECURSIVE ReadFields(_, _, _, _, _)
ReadFields(st, grid, order, local_offset, c) ==
    IF order = <<>> THEN st
    ELSE LET count == Prod(grid.ActiveDimensions)
         IN  IF order[1] \in c.fields
             THEN LET start == st.pos + local_offset
                      got   == FromFile(c.len, start, c.bpr, count)
                      log   == Append(st.reads,
                                   [grid |-> grid.id, file |-> grid.filename,
                                    field |-> order[1], start |-> start,
                                    count |-> count, got |-> got])
                      v     == [start |-> start, items |-> got,
                                shape |-> grid.ActiveDimensions, order |-> "F"]
                  IN  IF got # count
                      THEN [st EXCEPT !.pos = start + got * c.bpr,
                                      !.reads = log, !.err = "ValueError"]
                      ELSE ReadFields(
                               [st EXCEPT
                                   !.pos = start + got * c.bpr,
                                   !.reads = log,
                                   !.data = Put(st.data, grid.id,
                                                Put(Get(st.data, grid.id),
                                                    order[1], v))],
                               grid, Tail(order), 0, c)
             ELSE ReadFields(st, grid, Tail(order),
                             Skip(local_offset, count, c.bpr), c)

RECURSIVE ReadGrids(_, _, _)
ReadGrids(st, grids, c) ==
    IF grids = <<>> \/ st.err # "none" THEN st
    ELSE LET grid == grids[1]
             st1  == [st EXCEPT !.data = Put(st.data, grid.id, <<>>)]
         IN  ReadGrids(ReadFields(st1, grid, FieldOrder,
                                  GetOffset(grid) - st.pos, c),
                       Tail(grids), c)

\* The loop over the files: each is opened, at position 0, and read; the
\* handle f is rebound by the next file and never closed.
RECURSIVE ReadFiles(_, _, _)
ReadFiles(st, byfile, c) ==
    IF byfile = <<>> \/ st.err # "none" THEN st
    ELSE LET filename == byfile[1][1]
             grids    == SortByOffset(byfile[1][2])
             st1      == [st EXCEPT !.pos = 0,
                                    !.h = Acquire(st.h, filename)]
         IN  ReadFiles(ReadGrids(st1, grids, c), Tail(byfile), c)

read_chunk_data(h, objs, c) ==
    ReadFiles([pos |-> 0, data |-> <<>>, reads |-> <<>>, err |-> "none",
               h |-> h],
              GridsByFile(<<>>, objs), c)

\* One chunked read per run: a call opens its files anew and reads nothing
\* an earlier call left behind.
ReadChunkData ==
    /\ fs.kind = "chunk"
    /\ phase = "indexed"
    /\ phase' = "read"
    /\ \E fields \in SUBSET {FieldOrder[i] : i \in DOMAIN FieldOrder} :
          LET r == read_chunk_data(handles, fs.objs,
                                   [fields |-> fields, bpr |-> fs.bpr,
                                    len |-> fs.len])
          IN  /\ call' = Called("_read_chunk_data", fields, r.err,
                                IF r.err = "none" THEN r.data ELSE <<>>)
              /\ reads' = r.reads
              /\ handles' = r.h
    /\ UNCHANGED <<fs, dsvars>>

InitChunk ==
    /\ fs \in { [kind |-> "chunk", objs |-> objs, bpr |-> bpr, len |-> len] :
                  objs \in Chunks, bpr \in ItemSizes, len \in FileLengths }
    /\ phase = "indexed"
    /\ parameters = <<>>
    /\ domain_dimensions = <<>>
    /\ domain_left_edge = <<>>
    /\ domain_right_edge = <<>>
    /\ field_list = <<>>
    /\ field_units = <<>>
    /\ handles = {}
    /\ call = NoCall
    /\ reads = <<>>

NextChunk == ReadChunkData

SpecChunk == InitChunk /\ [][NextChunk]_vars

(***************************************************************************)
(* The claims                                                               *)
(***************************************************************************)

ParseDone == phase \in {"parsed", "failed", "indexed", "reindexed"}

\* C1: a directory without exactly one L*_ANG.txt or without exactly one
\* L*_MTL.txt fails the validity predicate, whatever its .TIF files are, so
\* the dataset never leaves the states "new" and "invalid" for the parse.
C1_InvalidWithoutBothMetaFiles ==
    (fs.kind = "landsat" /\ (fs.nANG # 1 \/ fs.nMTL # 1))
        => phase \in {"new", "invalid"}

\* The band files the parse discovered, once the table holds everything
\* that precedes the loop over them.
HeadDone == fs.kind = "landsat" /\ ParseDone /\ Has(parameters, StrKey("collection"))

DiscoveredBands ==
    LET files == Files(parameters, DataDir(fs.parameter_filename))
    IN  {BandOfPath(files[i])[2] : i \in DOMAIN files}

\* C2: the Landsat parse takes the domain geometry from band "1" only, and
\* with no band "1" among the discovered band files it ends in the
\* MissingBandOne error; it never completes with the geometry unset.
C2_MissingBandOne ==
    HeadDone =>
        /\ (<<"1">> \notin DiscoveredBands => call.err = "MissingBandOne")
        /\ (phase # "failed" =>
               /\ domain_dimensions = <<BandShape(<<"1">>).height,
                                        BandShape(<<"1">>).width, 1>>
               /\ domain_left_edge # <<>>
               /\ domain_right_edge # <<>>)

\* C3: the merge of the band files' metadata overwrites no parameter: every
\* key the table held before the loop over the band files keeps its value,
\* and a band metadata key whose name is a key of the table is not stored.
C3_MergeKeepsParameters ==
    HeadDone =>
        LET before == ParseHead(<<>>, fs).p
        IN  /\ \A i \in DOMAIN before :
                  /\ Has(parameters, before[i][1])
                  /\ Get(parameters, before[i][1]) = before[i][2]
            /\ \A k \in DictKeys(parameters) :
                  k.tup => ~Has(parameters, StrKey(k.name))
            /\ Has(parameters, StrKey("count"))
            /\ Get(parameters, StrKey("count")) = Len(fs.bands)

C3_Witness ==
    /\ fs.kind = "landsat"
    /\ phase = "parsed"
    /\ fs.angDtype
    /\ Len(fs.bands) = 3
    /\ Has(parameters, TupKey(<<"1">>, "height"))
    /\ Has(parameters, TupKey(<<"Q", "A">>, "driver"))
    /\ ~Has(parameters, TupKey(<<"1">>, "dtype"))

Example == ProductId("C", <<"0", "8">>, <<"T", "1">>)

SensorNames ==
    {"OLI&TIRS combined", "OLI-only", "ETM+", "TM", "MSS"}

\* C4: the filename decode never defaults a coded field.  A sensor letter, a
\* satellite code or a collection category code that its table lacks ends
\* the decode in KeyError (a name too short to hold a sensor letter, in
\* IndexError); otherwise the three fields are the table's values, as for
\* LC08_L1TP_171060_20210227_20210304_02_T1.
C4_NoDefaultForCodedFields ==
    call.op = "_parse_landsat_filename_data" =>
        LET f == call.arg
            known == /\ Len(f) >= 2
                     /\ f[2] \in {"C", "O", "E", "T", "M"}
                     /\ Slice(f, 2, 4) \in {<<"0", "7">>, <<"0", "8">>}
                     /\ Slice(f, 38, 40) \in
                            {<<"R", "T">>, <<"T", "1">>, <<"T", "2">>}
        IN  /\ (Len(f) >= 2 /\ ~known) => call.err = "KeyError"
            /\ Len(f) < 2 => call.err = "IndexError"
            /\ call.err # "none" =>
                  /\ phase = "failed"
                  /\ ~Has(parameters, StrKey("collection"))
            /\ known =>
                  /\ call.err = "none"
                  /\ Get(parameters, StrKey("sensor")) = sensor[f[2]]
                  /\ Get(parameters, StrKey("satellite"))
                        = satellite[Slice(f, 2, 4)]
                  /\ Get(parameters, StrKey("collection")).category
                        = category[Slice(f, 38, 40)]
            /\ Has(parameters, StrKey("sensor")) =>
                  Get(parameters, StrKey("sensor")) \in SensorNames
            /\ Has(parameters, StrKey("satellite")) =>
                  Get(parameters, StrKey("satellite"))
                      \in {"Landsat 7", "Landsat 8"}
            /\ f = Example =>
                  /\ Get(parameters, StrKey("sensor")) = "OLI&TIRS combined"
                  /\ Get(parameters, StrKey("satellite")) = "Landsat 8"
                  /\ Get(parameters, StrKey("collection")).category = "Tier 1"

C4_Witness ==
    /\ call.op = "_parse_landsat_filename_data"
    /\ call.err = "KeyError"
    /\ Len(call.arg) = IdLen
    /\ Has(parameters, StrKey("sensor"))
    /\ Has(parameters, StrKey("processing_time"))
    /\ Slice(call.arg, 38, 40) = <<"T", "3">>

IndexOf(field) == (CHOOSE k \in DOMAIN FieldOrder : FieldOrder[k] = field) - 1

WithFile == {i \in DOMAIN fs.objs : fs.objs[i].filename # "None"}

C6_CorruptOffsetTable ==
    call.op = "_read_chunk_data" =>
        /\ (\E i \in DOMAIN reads :
               reads[i].start + reads[i].count * fs.bpr > fs.len)
              => call.err = "CorruptOffsetTable"
        /\ parameters = <<>>
        /\ field_list = <<>>

C8_RightEdgeAboveLeftEdge ==
    (fs.kind = "geotiff" /\ ParseDone) =>
        \A i \in 1..3 : domain_right_edge[i] > domain_left_edge[i]

\* C9: field discovery on a raster of N bands leaves the field list at
\* exactly ("bands","1"), ..., ("bands","N") in ascending order, maps each
\* of them to "" in the unit mapping, and does the same when run again.
C9_DiscoveredFields ==
    (fs.kind = "geotiff" /\ phase \in {"indexed", "reindexed"}) =>
        /\ Len(field_list) = fs.count
        /\ \A i \in DOMAIN field_list :
              /\ field_list[i] = <<"bands", <<Digits[i + 1]>>>>
              /\ Has(field_units, field_list[i])
              /\ Get(field_units, field_list[i]) = ""
        /\ DictKeys(field_units) = {field_list[i] : i \in DOMAIN field_list}

C9_Witness ==
    /\ fs.kind = "geotiff"
    /\ phase = "reindexed"
    /\ fs.count = MaxBands
    /\ Len(field_list) = MaxBands
    /\ field_list[MaxBands] = <<"bands", PyStr(MaxBands)>>

\* C10: every key of the field list is readable by the raw field reader:
\* the read of ("bands", id) raises nothing and returns the band named id.
C10_DiscoveredFieldsReadable ==
    (/\ call.op = "_read_raw_field"
     /\ \E i \in DOMAIN field_list : field_list[i] = call.arg)
        => /\ call.err = "none"
           /\ call.ret.band = PyInt(call.arg[2])

=============================================================================
